---- MODULE Spec2Model ----
(***************************************************************************)
(* Model of the roof measurement pipeline of src/main.py:                  *)
(*   measure_roof -> photon_autocomplete -> overpass_building_polygon      *)
(*                -> polygon_area_sqft                                     *)
(*                                                                         *)
(* Conventions                                                             *)
(*  - Python None / an absent Optional is the empty tuple <<>>, a present  *)
(*    value v is <<v>>.  A list that Python tests with `not x` is a tuple, *)
(*    so None and [] coincide exactly where the code cannot tell them      *)
(*    apart.                                                               *)
(*  - Footprint coordinates are integers on a grid whose unit is the angle *)
(*    that EPSG:3857 maps to MetersPerUnit metres at the equator.  All     *)
(*    footprints lie within a few units of (0,0), where the Mercator       *)
(*    northing is linear in the latitude to a relative error below 1e-11.  *)
(*  - Square feet are exact decimals [w, u]: w whole square feet plus u    *)
(*    millionths.  The Python floats differ from them by about 1e-12,      *)
(*    which matters only for a value exactly on a rounding tie; no         *)
(*    footprint of the grid produces one.                                  *)
(***************************************************************************)
EXTENDS Integers, Sequences, FiniteSets, TLC

VARIABLES req, pc, lat, lng, geo, idx, data, last_error, poly_points,
          result, trace, env, genv, prev

vars == <<req, pc, lat, lng, geo, idx, data, last_error, poly_points,
          result, trace, env, genv, prev>>

-----------------------------------------------------------------------------
(* Bounds of the model *)

MaxSide == 2

MaxElems == 2

MaxRequests == 2

-----------------------------------------------------------------------------
(* Values *)

None == <<>>

Some(v) == <<v>>

MetersPerUnit == 10

servers == <<"overpass-api.de", "overpass.kumi.systems", "overpass.nchc.org.tw">>

N == Len(servers)

multipliers == [low |-> 105, medium |-> 115, steep |-> 125]

MeasureRequest == [address : {"", "12 Elm St"},
                   lat : {None, Some(0)},
                   lng : {None, Some(7)}]

-----------------------------------------------------------------------------
(* What the external services can answer *)

Unconstrained == [kind |-> "unconstrained"]

Err(k) == [kind |-> k]

Feature(name, lon, la) ==
    [properties |-> [name |-> name], geometry |-> [coordinates |-> <<lon, la>>]]

GeoResponses ==
    {Err("network"), Err("status"), Err("malformed")}
    \cup {[kind |-> "json", features |-> <<>>]}
    \cup {[kind |-> "json", features |-> <<Feature("Elm Street", 3, 2)>>]}

V(lon, la) == [lon |-> lon, lat |-> la]

(* a triangle wound clockwise and a square wound counter-clockwise, of    *)
(* side s                                                                  *)
Tri(s) == <<V(0, 0), V(0, s), V(s, 0)>>

Sq(s) == <<V(0, 0), V(s, 0), V(s, s), V(0, s)>>

Way(g) == [geometry |-> g]

OsmElements ==
    {Way(<<>>), Way(<<V(0, 0), V(1, 1)>>), Way(<<[lat |-> 0], [lat |-> 1], [lat |-> 2]>>)}
    \cup {Way(Tri(s)) : s \in 1..MaxSide}
    \cup {Way(Sq(s)) : s \in 1..MaxSide}

ElementLists == UNION {[1..n -> OsmElements] : n \in 0..MaxElems}

Json(els) == [kind |-> "json", elements |-> els]

Responses ==
    {Err("timeout"), Err("transport"), Err("status"), Err("malformed")}
    \cup {Json(els) : els \in ElementLists}

StableResponses ==
    {Err("transport"), Json(<<>>), Json(<<Way(Sq(1))>>),
     Json(<<Way(Tri(1)), Way(Sq(2))>>)}

StableGeoResponses ==
    {Err("network"), [kind |-> "json", features |-> <<>>],
     [kind |-> "json", features |-> <<Feature("Elm Street", 3, 2)>>]}

Offered(e, all) == IF e = Unconstrained THEN all ELSE {e}

-----------------------------------------------------------------------------
(* photon_autocomplete: None on zero matches, else the first match with    *)
(* lat taken from coordinates[1] and lng from coordinates[0].  Called only *)
(* with a response that did not raise.                                     *)

photon_autocomplete_unswapped(query, r) ==
    IF r.features = <<>>
    THEN None
    ELSE LET props == r.features[1].properties
             coords == r.features[1].geometry.coordinates
         IN Some([address |-> IF props.name = "" THEN query ELSE props.name,
                  lat |-> coords[1],
                  lng |-> coords[2]])

photon_autocomplete(query, r) ==
    IF r.features = <<>>
    THEN None
    ELSE LET props == r.features[1].properties
             coords == r.features[1].geometry.coordinates
         IN Some([address |-> IF props.name = "" THEN query ELSE props.name,
                  lat |-> coords[2],
                  lng |-> coords[1]])

-----------------------------------------------------------------------------
(* overpass_building_polygon: the body of one iteration of the server loop *)

Abs(x) == IF x < 0 THEN -x ELSE x

(* sum over i of x_i*y_(i+1) - x_(i+1)*y_i, indices cyclic: twice the      *)
(* signed area of the ring                                                 *)
RECURSIVE ShoelaceFrom(_, _)
ShoelaceFrom(pts, i) ==
    IF i > Len(pts)
    THEN 0
    ELSE LET j == IF i = Len(pts) THEN 1 ELSE i + 1
         IN pts[i][1] * pts[j][2] - pts[j][1] * pts[i][2] + ShoelaceFrom(pts, i + 1)

area_of_len(points) == Len(points)

(* Polygon(poly_points).area in half square units (the planar ring area    *)
(* is |shoelace sum| / 2; the doubling keeps triangles integral and does   *)
(* not change the ranking)                                                 *)
area_of(points) == Abs(ShoelaceFrom(points, 1))

(* p["lon"] or p["lat"] raises KeyError for a vertex without that key; the *)
(* comprehension runs for every element with a non-empty geometry, before  *)
(* the length test                                                         *)
RaisesKeyError(elements) ==
    \E i \in 1..Len(elements) :
        \E k \in 1..Len(elements[i].geometry) :
            ~({"lon", "lat"} \subseteq DOMAIN elements[i].geometry[k])

PointsOf(geom) == [k \in 1..Len(geom) |-> <<geom[k].lon, geom[k].lat>>]

RECURSIVE CandidatesFrom(_, _)
CandidatesFrom(elements, i) ==
    IF i > Len(elements)
    THEN <<>>
    ELSE LET geom == elements[i].geometry
         IN IF geom = <<>>
            THEN CandidatesFrom(elements, i + 1)
            ELSE IF Len(geom) >= 3
                 THEN <<PointsOf(geom)>> \o CandidatesFrom(elements, i + 1)
                 ELSE CandidatesFrom(elements, i + 1)

Candidates(elements) == CandidatesFrom(elements, 1)

(* max(candidates, key=area_of): the first candidate of maximal key *)
MaxByArea(candidates) ==
    LET i == CHOOSE i \in 1..Len(candidates) :
                 /\ \A j \in 1..Len(candidates) :
                        area_of(candidates[j]) <= area_of(candidates[i])
                 /\ \A j \in 1..(i - 1) :
                        area_of(candidates[j]) < area_of(candidates[i])
    IN candidates[i]

-----------------------------------------------------------------------------
(* polygon_area_sqft and the arithmetic of measure_roof                    *)

(* Transformer EPSG:4326 -> EPSG:3857 on the equatorial grid *)
Transform(p) == <<p[1] * MetersPerUnit, p[2] * MetersPerUnit>>

MeterPoints(points) == [k \in 1..Len(points) |-> Transform(points[k])]

(* poly_m.area in whole square metres: metre coordinates are multiples of  *)
(* MetersPerUnit, so the shoelace sum is even                              *)
AreaM2(points) == Abs(ShoelaceFrom(MeterPoints(points), 1)) \div 2

(* poly_m.area * 10.7639 as [w, u] *)
polygon_area_sqft(points) ==
    LET a == AreaM2(points)
        t == a * 7639
    IN [w |-> a * 10 + t \div 10000, u |-> (t % 10000) * 100]

(* x * multipliers[pitch_class], the multiplier in hundredths (1 <= m < 2) *)
TimesMultiplier(x, m) ==
    LET h == m - 100
        wu == ((x.w * h) % 100) * 10000 + (x.u * m) \div 100
    IN [w |-> x.w + (x.w * h) \div 100 + wu \div 1000000, u |-> wu % 1000000]

(* round(x, 0): nearest whole number, ties to even *)
Round0(x) ==
    IF x.u * 2 > 1000000 THEN x.w + 1
    ELSE IF x.u * 2 < 1000000 THEN x.w
    ELSE IF x.w % 2 = 0 THEN x.w ELSE x.w + 1

(* round(x / 100, 1), in tenths: x / 100 = (x / 10) tenths *)
RoundSquares(x) ==
    LET q == x.w \div 10
        r == (x.w % 10) * 1000000 + x.u
    IN IF r * 2 > 10000000 THEN q + 1
       ELSE IF r * 2 < 10000000 THEN q
       ELSE IF q % 2 = 0 THEN q ELSE q + 1

Measurement_RoundedFlat(points) ==
    LET flat_sqft == polygon_area_sqft(points)
        pitch_class == "medium"
        roof_sqft == TimesMultiplier([w |-> Round0(flat_sqft), u |-> 0],
                                     multipliers[pitch_class])
    IN [flat_sqft |-> Round0(flat_sqft),
        roof_sqft_est |-> Round0(roof_sqft),
        squares_tenths |-> RoundSquares(roof_sqft),
        pitch_class |-> pitch_class]

Measurement(points) ==
    LET flat_sqft == polygon_area_sqft(points)
        pitch_class == "medium"
        roof_sqft == TimesMultiplier(flat_sqft, multipliers[pitch_class])
    IN [flat_sqft |-> Round0(flat_sqft),
        roof_sqft_est |-> Round0(roof_sqft),
        squares_tenths |-> RoundSquares(roof_sqft),
        pitch_class |-> pitch_class]

-----------------------------------------------------------------------------
(* Log of the components one request invokes, in order.  reply is what the *)
(* contacted service answered, classified from the response alone.         *)

ReplyClass(r) ==
    IF r.kind # "json" THEN r.kind
    ELSE IF \E i \in 1..Len(r.elements) :
                \E k \in 1..Len(r.elements[i].geometry) :
                    DOMAIN r.elements[i].geometry[k] # {"lon", "lat"}
         THEN "malformed"
         ELSE IF \E i \in 1..Len(r.elements) : Len(r.elements[i].geometry) >= 3
              THEN "candidates"
              ELSE "no_candidates"

GeoReplyClass(r) ==
    IF r.kind # "json" THEN r.kind
    ELSE IF Len(r.features) = 0 THEN "no_features" ELSE "match"

(* got: the [lon, lat] pair of the geocoder's first match, as received *)
GeoGot(r) ==
    IF r.kind = "json" /\ Len(r.features) > 0
    THEN r.features[1].geometry.coordinates
    ELSE <<>>

Call(svc, k, la, ln, reply, got) ==
    [svc |-> svc, server |-> k, lat |-> la, lng |-> ln, reply |-> reply, got |-> got]

Pending == [status |-> "pending"]

-----------------------------------------------------------------------------
(* State after the service has started and a request has arrived *)

Fresh(r) ==
    /\ req = r
    /\ pc = "measure_roof"
    /\ lat = None
    /\ lng = None
    /\ geo = None
    /\ idx = 1
    /\ data = Pending
    /\ last_error = "None"
    /\ poly_points = None
    /\ result = Pending
    /\ trace = <<>>

(* external services free to answer anything at each call *)
Init ==
    /\ \E r \in MeasureRequest : Fresh(r)
    /\ env = [k \in 1..N |-> Unconstrained]
    /\ genv = Unconstrained
    /\ prev = <<>>

(* external services whose data does not change *)
InitStable ==
    /\ \E r \in MeasureRequest : Fresh(r)
    /\ env \in [1..N -> StableResponses]
    /\ genv \in StableGeoResponses
    /\ prev = <<>>

-----------------------------------------------------------------------------
(* measure_roof, lines 135-140: entry and the choice of path *)
EntryPath_GeocodeEmpty(r) ==
    IF r.lat = None \/ r.lng = None
    THEN "photon_autocomplete"
    ELSE "overpass_building_polygon"

EntryPath_EitherCoord(r) ==
    IF r.lat = None /\ r.lng = None
    THEN IF r.address = "" THEN "no_location" ELSE "photon_autocomplete"
    ELSE "overpass_building_polygon"

EntryPath(r) ==
    IF r.lat = None \/ r.lng = None
    THEN IF r.address = "" THEN "no_location" ELSE "photon_autocomplete"
    ELSE "overpass_building_polygon"

Enter ==
    /\ pc = "measure_roof"
    /\ lat' = req.lat
    /\ lng' = req.lng
    /\ IF EntryPath(req) = "no_location"
       THEN /\ result' = [error |-> "no_location"]
            /\ pc' = "done"
       ELSE /\ result' = result
            /\ pc' = EntryPath(req)
    /\ UNCHANGED <<req, geo, idx, data, last_error, poly_points, trace, env, genv, prev>>

(* measure_roof, lines 142-146, with the call of photon_autocomplete.  An  *)
(* exception raised by requests.get, raise_for_status or r.json() is not   *)
(* caught anywhere in measure_roof: the request ends with that exception.  *)
GeocodeOutcome(query, r) ==
    IF r.kind # "json"
    THEN [pc |-> "done", geo |-> None, result |-> [exception |-> r.kind]]
    ELSE LET g == photon_autocomplete(query, r)
         IN IF g = None
            THEN [pc |-> "done", geo |-> g, result |-> [error |-> "geocode_failed"]]
            ELSE [pc |-> "overpass_building_polygon", geo |-> g, result |-> Pending]

Geocode ==
    /\ pc = "photon_autocomplete"
    /\ \E r \in Offered(genv, GeoResponses) :
        LET o == GeocodeOutcome(req.address, r)
        IN /\ trace' = Append(trace, Call("photon", 0, None, None, GeoReplyClass(r), GeoGot(r)))
           /\ geo' = o.geo
           /\ result' = o.result
           /\ pc' = o.pc
           /\ IF o.geo = None
              THEN UNCHANGED <<lat, lng>>
              ELSE /\ lat' = Some(o.geo[1].lat)
                   /\ lng' = Some(o.geo[1].lng)
    /\ UNCHANGED <<req, idx, data, last_error, poly_points, env, genv, prev>>

(* overpass_building_polygon, lines 82-114: one iteration of the loop over *)
(* servers.  "raise" = an exception caught at line 112, "continue" = no    *)
(* candidates (line 104), "return" = line 110.  data is the payload the    *)
(* returned polygon was chosen from; the payload of an iteration that did  *)
(* not return is never read again (line 91 reassigns it first) and is not  *)
(* kept.                                                                   *)
ServerOutcome(r) ==
    IF r.kind # "json" THEN [how |-> "raise", error |-> r.kind, poly |-> None]
    ELSE IF RaisesKeyError(r.elements)
         THEN [how |-> "raise", error |-> "KeyError", poly |-> None]
         ELSE LET candidates == Candidates(r.elements)
              IN IF candidates = <<>>
                 THEN [how |-> "continue", error |-> "None", poly |-> None]
                 ELSE [how |-> "return", error |-> "None", poly |-> MaxByArea(candidates)]

NextServer_Retry(i, o) == IF o.how = "continue" THEN i + 1 ELSE i

NextServer(i, o) == IF o.how = "return" THEN i ELSE i + 1

TryServer_Propagate ==
    /\ pc = "overpass_building_polygon"
    /\ idx <= N
    /\ \E r \in Offered(env[idx], Responses) :
        LET o == ServerOutcome(r)
        IN /\ trace' = Append(trace, Call("overpass", idx, lat, lng, ReplyClass(r), <<>>))
           /\ data' = IF o.how = "return" THEN r ELSE Pending
           /\ last_error' = IF o.how = "raise" THEN o.error ELSE last_error
           /\ poly_points' = o.poly
           /\ idx' = NextServer(idx, o)
           /\ pc' = IF o.how = "return" THEN "polygon_area_sqft"
                    ELSE IF o.how = "raise" THEN "done" ELSE pc
           /\ result' = IF o.how = "raise" THEN [exception |-> o.error] ELSE result
    /\ UNCHANGED <<req, lat, lng, geo, env, genv, prev>>

TryServer ==
    /\ pc = "overpass_building_polygon"
    /\ idx <= N
    /\ \E r \in Offered(env[idx], Responses) :
        LET o == ServerOutcome(r)
        IN /\ trace' = Append(trace, Call("overpass", idx, lat, lng, ReplyClass(r), <<>>))
           /\ data' = IF o.how = "return" THEN r ELSE Pending
           /\ last_error' = IF o.how = "raise" THEN o.error ELSE last_error
           /\ poly_points' = o.poly
           /\ idx' = NextServer(idx, o)
           /\ pc' = IF o.how = "return" THEN "polygon_area_sqft" ELSE pc
    /\ UNCHANGED <<req, lat, lng, geo, result, env, genv, prev>>

Exhausted_Raises ==
    /\ pc = "overpass_building_polygon"
    /\ idx > N
    /\ poly_points' = None
    /\ result' = IF last_error = "None"
                 THEN [error |-> "no_footprint"]
                 ELSE [exception |-> last_error]
    /\ pc' = "done"
    /\ UNCHANGED <<req, lat, lng, geo, idx, data, last_error, trace, env, genv, prev>>

(* overpass_building_polygon, lines 116-117, and measure_roof, 150-151 *)
Exhausted ==
    /\ pc = "overpass_building_polygon"
    /\ idx > N
    /\ poly_points' = None
    /\ result' = [error |-> "no_footprint"]
    /\ pc' = "done"
    /\ UNCHANGED <<req, lat, lng, geo, idx, data, last_error, trace, env, genv, prev>>

(* measure_roof, lines 153-168 *)
Estimate ==
    /\ pc = "polygon_area_sqft"
    /\ trace' = Append(trace, Call("area", 0, None, None, "computed", <<>>))
    /\ result' = Measurement(poly_points)
    /\ pc' = "done"
    /\ UNCHANGED <<req, lat, lng, geo, idx, data, last_error, poly_points, env, genv, prev>>

NextRequest_StickyServer ==
    /\ pc = "done"
    /\ Len(prev) < MaxRequests - 1
    /\ prev' = Append(prev, [req |-> req, result |-> result, trace |-> trace])
    /\ \E r \in MeasureRequest :
        /\ req' = r
        /\ pc' = "measure_roof"
        /\ lat' = None
        /\ lng' = None
        /\ geo' = None
        /\ idx' = IF idx > N THEN 1 ELSE idx
        /\ data' = Pending
        /\ last_error' = "None"
        /\ poly_points' = None
        /\ result' = Pending
        /\ trace' = <<>>
    /\ UNCHANGED <<env, genv>>

(* The next request arrives.  Every name measure_roof and the functions it *)
(* calls assign is a local of that call; prev keeps what the finished      *)
(* request did, for comparison.                                            *)
Summary == [req |-> req, result |-> result, trace |-> trace]

NextRequest ==
    /\ pc = "done"
    /\ Len(prev) < MaxRequests - 1
    /\ prev' = Append(prev, Summary)
    /\ \E r \in MeasureRequest :
        /\ req' = r
        /\ pc' = "measure_roof"
        /\ lat' = None
        /\ lng' = None
        /\ geo' = None
        /\ idx' = 1
        /\ data' = Pending
        /\ last_error' = "None"
        /\ poly_points' = None
        /\ result' = Pending
        /\ trace' = <<>>
    /\ UNCHANGED <<env, genv>>

Next == Enter \/ Geocode \/ TryServer \/ Exhausted \/ Estimate

Spec == Init /\ [][Next]_vars

NextStable == Next \/ NextRequest

SpecStable == InitStable /\ [][NextStable]_vars

-----------------------------------------------------------------------------
(* Vocabulary of the properties *)

OverpassCalls == SelectSeq(trace, LAMBDA c : c.svc = "overpass")

PhotonCalls == SelectSeq(trace, LAMBDA c : c.svc = "photon")

AreaCalls == SelectSeq(trace, LAMBDA c : c.svc = "area")

ErrorCodes == {"no_location", "geocode_failed", "no_footprint"}

IsError(x) == DOMAIN x = {"error"} /\ x.error \in ErrorCodes

IsMeasurement(x) ==
    DOMAIN x = {"flat_sqft", "roof_sqft_est", "squares_tenths", "pitch_class"}

IsException(x) == DOMAIN x = {"exception"}

(* the locator has handed control back to measure_roof *)
LocatorReturned ==
    Len(OverpassCalls) > 0 /\ pc \in {"polygon_area_sqft", "done"}

(* the usable polygons of a response, read off the payload *)
UsablePolygons(r) ==
    {PointsOf(r.elements[i].geometry) :
        i \in {k \in 1..Len(r.elements) : Len(r.elements[k].geometry) >= 3}}

RawShoelaceArea2(p) == Abs(ShoelaceFrom(p, 1))

NoCoordinate(r) == r.lat = None \/ r.lng = None

-----------------------------------------------------------------------------
(* C1: every finished request carries a measurement or one of the three    *)
(* error codes, and a geocoder request that failed with a network error or *)
(* a non-2xx status finishes with geocode_failed.                          *)
C1_AlwaysWellFormed ==
    /\ pc = "done" => IsMeasurement(result) \/ IsError(result)
    /\ (pc = "done" /\ Len(PhotonCalls) > 0
            /\ PhotonCalls[1].reply \in {"network", "status"})
       => result = [error |-> "geocode_failed"]

(* C2: the servers are contacted in list order, none after one that        *)
(* answered with a usable polygon; the locator hands back a polygon of the *)
(* first such server, stops early for no other reason, and no server's     *)
(* failure reaches the caller.                                             *)
C2_FirstUsableServerWins ==
    LET oc == OverpassCalls
        n == Len(oc)
    IN /\ \A j \in 1..n : oc[j].server = j
       /\ \A j \in 1..(n - 1) : oc[j].reply # "candidates"
       /\ n > 0 => ~IsException(result)
       /\ (n > 0 /\ oc[n].reply = "candidates") => LocatorReturned
       /\ LocatorReturned =>
            IF oc[n].reply = "candidates"
            THEN /\ ReplyClass(data) = "candidates"
                 /\ poly_points \in UsablePolygons(data)
                 /\ pc = "done" => IsMeasurement(result)
            ELSE /\ n = N
                 /\ result = [error |-> "no_footprint"]

C2_Witness ==
    /\ pc = "done"
    /\ Len(OverpassCalls) = 3
    /\ OverpassCalls[1].reply = "transport"
    /\ OverpassCalls[2].reply = "no_candidates"
    /\ OverpassCalls[3].reply = "candidates"
    /\ IsMeasurement(result)

(* C3: when every server failed or had no usable polygon, the locator      *)
(* raises nothing, the area estimator is not invoked and the request       *)
(* finishes with exactly the error no_footprint.                           *)
C3_NoFootprint ==
    LET oc == OverpassCalls
    IN (Len(oc) = N /\ \A j \in 1..N : oc[j].reply # "candidates")
       => /\ pc \in {"overpass_building_polygon", "done"}
          /\ AreaCalls = <<>>
          /\ ~IsException(result)
          /\ pc = "done" => result = [error |-> "no_footprint"]

C3_Witness ==
    /\ pc = "done"
    /\ Len(OverpassCalls) = N
    /\ OverpassCalls[1].reply = "status"
    /\ OverpassCalls[2].reply = "malformed"
    /\ OverpassCalls[3].reply = "no_candidates"
    /\ result = [error |-> "no_footprint"]

(* C4: the polygon handed back is one of the usable polygons of the server *)
(* that answered last, and none of that server's polygons has a larger raw *)
(* shoelace area.                                                          *)
C4_LargestCandidate ==
    (pc \in {"polygon_area_sqft", "done"} /\ poly_points # None)
    => /\ poly_points \in UsablePolygons(data)
       /\ \A c \in UsablePolygons(data) :
              RawShoelaceArea2(c) <= RawShoelaceArea2(poly_points)

C4_Witness ==
    /\ pc = "done"
    /\ poly_points # None
    /\ \E c \in UsablePolygons(data) :
           /\ RawShoelaceArea2(c) < RawShoelaceArea2(poly_points)
           /\ Len(c) > Len(poly_points)

(* C5: a request with an empty address and neither lat nor lng finishes    *)
(* with no_location and contacts no service.                               *)
C5_NoLocation ==
    (req.address = "" /\ req.lat = None /\ req.lng = None)
    => /\ trace = <<>>
       /\ pc \in {"measure_roof", "done"}
       /\ pc = "done" => result = [error |-> "no_location"]

C5_Witness ==
    /\ req.address = "" /\ req.lat = None /\ req.lng = None
    /\ pc = "done"
    /\ result = [error |-> "no_location"]

(* C6: without a coordinate and with an address, a geocoder answer without *)
(* features ends the request with geocode_failed before any footprint      *)
(* server is contacted, and after a match every footprint query carries    *)
(* lat = second and lng = first element of the match's pair.               *)
C6_Geocoded ==
    LET oc == OverpassCalls
        ph == PhotonCalls
    IN (NoCoordinate(req) /\ req.address # "")
       => /\ (Len(ph) > 0 /\ ph[1].reply = "no_features")
             => /\ pc = "done"
                /\ result = [error |-> "geocode_failed"]
                /\ oc = <<>>
          /\ Len(oc) > 0
             => /\ Len(ph) = 1
                /\ ph[1].reply = "match"
                /\ \A j \in 1..Len(oc) :
                       /\ oc[j].lat = Some(ph[1].got[2])
                       /\ oc[j].lng = Some(ph[1].got[1])

C6_Witness ==
    /\ NoCoordinate(req) /\ req.address # ""
    /\ pc = "done"
    /\ Len(PhotonCalls) = 1
    /\ PhotonCalls[1].reply = "match"
    /\ Len(OverpassCalls) > 0

(* C7: at most one geocoder call, none when lat and lng are both given,    *)
(* the geocoder call before every footprint call, at most N footprint      *)
(* calls, no server twice.                                                 *)
C7_CallBudget ==
    LET oc == OverpassCalls
    IN /\ Len(PhotonCalls) <= 1
       /\ ~NoCoordinate(req) => Len(PhotonCalls) = 0
       /\ \A i, j \in 1..Len(trace) :
              (i < j /\ trace[j].svc = "photon") => trace[i].svc # "overpass"
       /\ Len(oc) <= N
       /\ \A i, j \in 1..Len(oc) : i # j => oc[i].server # oc[j].server

C7_Witness ==
    /\ pc = "done"
    /\ Len(PhotonCalls) = 1
    /\ Len(OverpassCalls) = N

(* C8 as claimed: a footprint of 400 square metres yields 4306, 4952, 49.5 *)
(* and medium.                                                             *)
C8_Original ==
    (pc = "done" /\ IsMeasurement(result) /\ AreaM2(poly_points) = 400)
    => result = [flat_sqft |-> 4306, roof_sqft_est |-> 4952,
                 squares_tenths |-> 495, pitch_class |-> "medium"]

(* C8 amended: a footprint of 400 square metres yields flat_sqft 4306,     *)
(* roof_sqft_est 4951 (4305.56 * 1.15 = 4951.394), squares 49.5 and        *)
(* medium.                                                                 *)
C8_Amended ==
    (pc = "done" /\ IsMeasurement(result) /\ AreaM2(poly_points) = 400)
    => result = [flat_sqft |-> 4306, roof_sqft_est |-> 4951,
                 squares_tenths |-> 495, pitch_class |-> "medium"]

C8_Witness ==
    /\ pc = "done"
    /\ IsMeasurement(result)
    /\ poly_points = PointsOf(Sq(2))
    /\ AreaM2(poly_points) = 400

(* C9: against services whose answers do not change, two finished requests *)
(* with the same coordinate contacted the same servers in the same order   *)
(* and got the same outcome.                                               *)
SameCoordinate(r1, r2) ==
    ~NoCoordinate(r1) /\ r1.lat = r2.lat /\ r1.lng = r2.lng

C9_Deterministic ==
    /\ pc = "done"
       => \A i \in 1..Len(prev) :
              SameCoordinate(req, prev[i].req)
              => prev[i].result = result /\ prev[i].trace = trace
    /\ \A i, j \in 1..Len(prev) :
           SameCoordinate(prev[i].req, prev[j].req)
           => prev[i].result = prev[j].result /\ prev[i].trace = prev[j].trace

C9_Witness ==
    /\ pc = "done"
    /\ Len(prev) >= 1
    /\ SameCoordinate(req, prev[1].req)
    /\ req.address # prev[1].req.address
    /\ Len(OverpassCalls) >= 2
    /\ IsMeasurement(result)

(* C10: a request with exactly one of lat and lng is handled as one with   *)
(* neither: no_location for an empty address, otherwise the geocoder is    *)
(* called first and every footprint query carries the geocoder's lat and   *)
(* lng, not the supplied value.                                            *)
C10_HalfCoordinate ==
    LET oc == OverpassCalls
        ph == PhotonCalls
    IN ((req.lat = None) # (req.lng = None))
       => /\ req.address = ""
             => /\ trace = <<>>
                /\ pc \in {"measure_roof", "done"}
                /\ pc = "done" => result = [error |-> "no_location"]
          /\ req.address # ""
             => /\ pc \notin {"measure_roof", "photon_autocomplete"}
                   => Len(ph) = 1 /\ trace[1].svc = "photon"
                /\ \A j \in 1..Len(oc) :
                       /\ Len(ph) = 1
                       /\ oc[j].lat = Some(ph[1].got[2])
                       /\ oc[j].lng = Some(ph[1].got[1])
                       /\ oc[j].lat # req.lat
                       /\ oc[j].lng # req.lng

C10_Witness ==
    /\ req.lat # None /\ req.lng = None /\ req.address # ""
    /\ pc = "done"
    /\ Len(OverpassCalls) > 0
    /\ IsMeasurement(result)

TypeOK ==
    /\ req \in MeasureRequest
    /\ pc \in {"measure_roof", "photon_autocomplete", "overpass_building_polygon",
               "polygon_area_sqft", "done"}
    /\ idx \in 1..(N + 1)
    /\ Len(trace) <= N + 2

====
